---- MODULE Spec2Model ----
(***************************************************************************)
(* One-way folder replication (src/main.py): the scheduler loop `main`,    *)
(* one pass `folder_synchronization`, the equivalence check                *)
(* `same_file_check` and the log sink `update_log`, over an abstract       *)
(* filesystem holding a source tree, a destination tree and a log file.    *)
(***************************************************************************)
EXTENDS Integers, Sequences, FiniteSets, TLC

(***************************************************************************)
(* Bounds of the model.                                                    *)
(***************************************************************************)
\* how many filesystem operations may fail for an outside reason in one run
MaxFaults == 2
\* how many changes another process may make to the trees (SpecEnv only)
MaxEnv == 1
\* the longest pass, in seconds
MaxDur == 7
\* the longest --interval, in seconds (SpecScenario only)
MaxInterval == 5
\* the pass counter saturates here
MaxPass == 2

(***************************************************************************)
(* The filesystem: relative paths are sequences of names.                  *)
(***************************************************************************)
ROOT == <<>>
A    == <<"a.txt">>
B    == <<"b.txt">>
S    == <<"sub">>
SO   == <<"sub", "old.txt">>
SS   == <<"sub", "sub">>
N    == <<"new">>
NF   == <<"new", "f.txt">>
Paths == {A, B, S, SO, SS, N, NF}

Parent(p)   == SubSeq(p, 1, Len(p) - 1)
Basename(p) == p[Len(p)]

Sizes  == {10, 11}
Mtimes == {1, 2}

Absent      == [kind |-> "absent", size |-> 0, mtime |-> 0]
Dir(s, m)   == [kind |-> "dir", size |-> s, mtime |-> m]
File(s, m)  == [kind |-> "file", size |-> s, mtime |-> m]
SrcFile     == File(10, 1)
Files       == {File(s, m) : s \in Sizes, m \in Mtimes}
Dirs        == {Dir(s, m) : s \in Sizes, m \in Mtimes}
\* a directory as mkdir leaves it; the source's directories all look like it
\* (the program never reads the size or mtime of a source directory)
NewDir      == Dir(11, 2)
\* a directory of the destination last changed at another time
OldDir      == Dir(11, 1)
Nodes       == Files \cup Dirs \cup {Absent}
\* a file whose copy was cut short: some size, the time of the write
PartialFiles == {File(s, 2) : s \in Sizes}

\* a tree is well formed when an entry exists only inside a directory
WellFormed(root, tree) ==
    \A p \in Paths : tree[p].kind # "absent" =>
        IF Parent(p) = ROOT THEN root = "dir" ELSE tree[Parent(p)].kind = "dir"

SrcNodes(p) ==
    IF p = A THEN {Absent, SrcFile}
    ELSE IF p = B THEN {Absent}
    ELSE IF p = S THEN {Absent, SrcFile, NewDir}
    ELSE IF p = SO THEN {Absent, SrcFile}
    ELSE IF p = SS THEN {Absent, NewDir}
    ELSE {Absent}

DstNodes(p) ==
    IF p = A THEN {Absent} \cup Files
    ELSE IF p = B THEN {Absent, SrcFile}
    ELSE IF p = S THEN {Absent, NewDir, OldDir, SrcFile, File(11, 2)}
    ELSE IF p = SO THEN {Absent, SrcFile, File(10, 2)}
    ELSE IF p = SS THEN {Absent, SrcFile, NewDir}
    ELSE {Absent}

Roots == {"absent", "file", "dir"}

\* the trees that hold something at the paths of `used` at most
TreesOver(used) ==
    {[p \in Paths |-> IF p \in used THEN f[p] ELSE Absent] : f \in [used -> Nodes]}

SrcTrees(root) == {t \in TreesOver({A, B, S, SO, SS}) :
                     /\ \A p \in Paths : t[p] \in SrcNodes(p)
                     /\ WellFormed(root, t)}
DstTrees(root) == {t \in TreesOver({A, B, S, SO, SS}) :
                     /\ \A p \in Paths : t[p] \in DstNodes(p)
                     /\ WellFormed(root, t)}

\* os.path.exists / os.path.isdir on root joined with p
RECURSIVE isdir(_, _, _)
isdir(root, tree, p) ==
    IF p = ROOT THEN root = "dir"
    ELSE tree[p].kind = "dir" /\ isdir(root, tree, Parent(p))

exists(root, tree, p) ==
    IF p = ROOT THEN root # "absent"
    ELSE tree[p].kind # "absent" /\ isdir(root, tree, Parent(p))

\* os.scandir: the entries of directory d
Entries(tree, d) == {q \in Paths : Parent(q) = d /\ tree[q].kind # "absent"}
SubDirs(tree, d) == {q \in Entries(tree, d) : tree[q].kind = "dir"}
NonDirs(tree, d) == Entries(tree, d) \ SubDirs(tree, d)

\* scandir yields the entries in an arbitrary order
Orders(set) == {s \in [1..Cardinality(set) -> set] :
                  \A i, j \in 1..Cardinality(set) : s[i] = s[j] => i = j}

\* the listings `dirs + files` os.walk can build for directory d
Listings(tree, d) ==
    {ds \o fs : ds \in Orders(SubDirs(tree, d)), fs \in Orders(NonDirs(tree, d))}


(***************************************************************************)
(* Filesystem operations on the destination. Each yields the set of        *)
(* results the call can have: ok (no exception), the tree afterwards, and  *)
(* fault (it failed for an outside reason: permissions, disk full, ...).   *)
(***************************************************************************)
Res(ok, root, tree, fault) == [ok |-> ok, root |-> root, tree |-> tree, fault |-> fault]

Prefixes(p) == {SubSeq(p, 1, k) : k \in 1..Len(p)}

\* adding or removing an entry of directory d sets d's mtime to the present
Touch(tree, d) == IF d = ROOT THEN tree ELSE [tree EXCEPT ![d].mtime = 2]

\* the entry at p is unlinked
Unlink(tree, p) == Touch([tree EXCEPT ![p] = Absent], Parent(p))

\* a slip: shutil.rmtree in place of os.rmdir takes the contents along
rmtree(root, tree, p, mayFault) ==
    IF ~isdir(root, tree, p)
    THEN {Res(FALSE, root, tree, FALSE)}
    ELSE {Res(TRUE, root,
              Unlink([q \in Paths |-> IF Parent(q) = p THEN Absent ELSE tree[q]], p),
              FALSE)}

\* os.rmdir: only an empty directory is removed
rmdir(root, tree, p, mayFault) ==
    IF ~isdir(root, tree, p) \/ Entries(tree, p) # {}
    THEN {Res(FALSE, root, tree, FALSE)}
    ELSE {Res(TRUE, root, Unlink(tree, p), FALSE)}
         \cup (IF mayFault THEN {Res(FALSE, root, tree, TRUE)} ELSE {})

\* os.remove: unlinks a file; a missing path or a directory is an error
remove(root, tree, p, mayFault) ==
    IF ~exists(root, tree, p) \/ tree[p].kind = "dir"
    THEN {Res(FALSE, root, tree, FALSE)}
    ELSE {Res(TRUE, root, Unlink(tree, p), FALSE)}
         \cup (IF mayFault THEN {Res(FALSE, root, tree, TRUE)} ELSE {})

\* os.makedirs: creates the missing ancestors, then the leaf, which must not exist
makedirs(root, tree, p, mayFault) ==
    LET blocked == \/ root = "file"
                   \/ \E q \in Prefixes(p) \ {p} : tree[q].kind = "file"
                   \/ exists(root, tree, p)
        made(set) == {q \in set : tree[q].kind = "absent"}
        upTo(set) == [q \in Paths |->
                        IF q \in made(set) THEN NewDir
                        ELSE IF tree[q].kind = "dir" /\ \E c \in made(set) : Parent(c) = q
                             THEN [tree[q] EXCEPT !.mtime = 2]
                             ELSE tree[q]]
    IN  IF blocked
        THEN {Res(FALSE, root, tree, FALSE)}
        ELSE {Res(TRUE, "dir", upTo(Prefixes(p)), FALSE)}
             \cup (IF mayFault
                   THEN {Res(FALSE, root, tree, TRUE)}
                        \cup (IF p = ROOT THEN {}
                              ELSE {Res(FALSE, "dir", upTo(Prefixes(p) \ {p}), TRUE)})
                   ELSE {})

\* where shutil.copy2 writes: into dest_item when that is a directory
CopyTarget(root, tree, p) ==
    IF isdir(root, tree, p) THEN Append(p, Basename(p)) ELSE p

\* file f is written at t: a new entry changes the directory that holds it
Write(tree, t, f) ==
    IF tree[t].kind = "absent" THEN Touch([tree EXCEPT ![t] = f], Parent(t))
    ELSE [tree EXCEPT ![t] = f]

\* a slip: shutil.copy in place of shutil.copy2 leaves the time of the write
copy_without_stat(sroot, stree, root, tree, p, mayFault) ==
    LET t == CopyTarget(root, tree, p)
    IN  IF \/ ~exists(sroot, stree, p) \/ isdir(sroot, stree, p)
           \/ t \notin Paths
           \/ ~isdir(root, tree, Parent(t))
           \/ tree[t].kind = "dir"
        THEN {Res(FALSE, root, tree, FALSE)}
        ELSE {Res(TRUE, root, Write(tree, t, [stree[p] EXCEPT !.mtime = 2]), FALSE)}

\* shutil.copy2: content, then size and mtime of the source (copystat)
copy2(sroot, stree, root, tree, p, mayFault) ==
    LET t == CopyTarget(root, tree, p)
    IN  IF \/ ~exists(sroot, stree, p) \/ isdir(sroot, stree, p)
           \/ t \notin Paths
           \/ ~isdir(root, tree, Parent(t))
           \/ tree[t].kind = "dir"
        THEN {Res(FALSE, root, tree, FALSE)}
        ELSE {Res(TRUE, root, Write(tree, t, stree[p]), FALSE)}
             \cup (IF mayFault
                   THEN {Res(FALSE, root, tree, TRUE)}
                        \cup {Res(FALSE, root, Write(tree, t, f), TRUE) :
                                f \in PartialFiles}
                   ELSE {})

(***************************************************************************)
(* same_file_check(source_item, dest_item): "True" (copy), "False", or     *)
(* "Raise" when os.path.getmtime/getsize raises.                           *)
(***************************************************************************)
\* a slip: no branch for directories, their mtime and size are compared as well
same_file_check_DirsCompared(sroot, stree, root, tree, p) ==
    IF ~exists(root, tree, p) THEN {"True"}
    ELSE IF ~exists(sroot, stree, p) THEN {"Raise"}
    ELSE IF tree[p].mtime = stree[p].mtime /\ tree[p].size = stree[p].size
         THEN {"False"} ELSE {"True"}

\* a slip: `or` for `and` on line 45, one matching attribute is enough
same_file_check_EitherMatches(sroot, stree, root, tree, p) ==
    IF ~exists(root, tree, p) THEN {"True"}
    ELSE IF ~isdir(sroot, stree, p)
         THEN IF ~exists(sroot, stree, p) THEN {"Raise"}
              ELSE IF tree[p].mtime = stree[p].mtime \/ tree[p].size = stree[p].size
                   THEN {"False"} ELSE {"True"}
    ELSE {"False"}

same_file_check(sroot, stree, root, tree, p) ==
    IF ~exists(root, tree, p) THEN {"True"}
    ELSE IF ~isdir(sroot, stree, p)
         THEN IF ~exists(sroot, stree, p) THEN {"Raise"}
              ELSE IF tree[p].mtime = stree[p].mtime /\ tree[p].size = stree[p].size
                   THEN {"False"} ELSE {"True"}
    ELSE {"False"}

(***************************************************************************)
(* os.walk(destination_folder, topdown=False) with the loop of lines       *)
(* 116-121: the sequences of destination items in which they can be met.   *)
(***************************************************************************)
RECURSIVE walk_bottom_up(_, _, _)
RECURSIVE WalkEach(_, _, _, _)
WalkEach(root, tree, ds, i) ==
    IF i > Len(ds) THEN {<<>>}
    ELSE {h \o r : h \in walk_bottom_up(root, tree, ds[i]),
                   r \in WalkEach(root, tree, ds, i + 1)}

\* a slip: topdown=False left out, a directory's listing comes before its contents
walk_top_down(root, tree, d) ==
    IF ~isdir(root, tree, d) THEN {<<>>}
    ELSE UNION {{(ds \o fs) \o below : below \in WalkEach(root, tree, ds, 1)} :
                  ds \in Orders(SubDirs(tree, d)), fs \in Orders(NonDirs(tree, d))}

walk_bottom_up(root, tree, d) ==
    IF ~isdir(root, tree, d) THEN {<<>>}
    ELSE UNION {{below \o (ds \o fs) : below \in WalkEach(root, tree, ds, 1)} :
                  ds \in Orders(SubDirs(tree, d)), fs \in Orders(NonDirs(tree, d))}

\* a slip: the test asks for a source directory instead of any source item
Slated_OnlyDirsKept(sroot, stree, p) == ~isdir(sroot, stree, p)

\* lines 119-121: a destination item is slated when its source path is missing
Slated(sroot, stree, p) == ~exists(sroot, stree, p)

SelectItems(sroot, stree, seq) == SelectSeq(seq, LAMBDA p : Slated(sroot, stree, p))


(***************************************************************************)
(* State.                                                                  *)
(***************************************************************************)
VARIABLES
    srcRoot, src,        \* the source folder: kind of the root, its items
    dstRoot, dst,        \* the destination folder
    logExists,           \* whether the log file exists
    interval,            \* --interval
    pc,                  \* where the process is
    passNo,              \* passes started so far (saturating at MaxPass)
    items_to_remove,     \* line 98
    rmIdx,               \* position of the loop of line 123
    walkStack,           \* os.walk(source_folder): directories still to list
    walkPending,         \* the items of the current listing still to process
    visited,             \* source items the loop of line 134 has processed
    messages_for_log,    \* line 100
    itemFailures,        \* removals, creations and copies that failed in this pass
    elapsed,             \* time.time() - start_time as read on line 25
    slept,               \* the argument of time.sleep on line 25
    exitStatus,          \* -1 while running
    notice,              \* "Script terminated by user." was printed
    interrupted,         \* a KeyboardInterrupt was delivered
    faults,              \* operations failed for an outside reason so far
    failed,              \* some filesystem operation failed in this run
    sink,                \* the calls of update_log made by the pass under way or just over
    retry,               \* the paths the last pass that returned recorded an error about
    envLeft              \* changes by other processes still allowed

vars == <<srcRoot, src, dstRoot, dst, logExists, interval, pc, passNo,
          items_to_remove, rmIdx, walkStack, walkPending, visited,
          messages_for_log, itemFailures, elapsed, slept, exitStatus, notice, interrupted,
          faults, failed, sink, retry, envLeft>>

fsVars    == <<srcRoot, src, dstRoot, dst>>
localVars == <<items_to_remove, rmIdx, walkStack, walkPending, visited,
               messages_for_log, itemFailures>>
exitVars  == <<exitStatus, notice, interrupted>>
timeVars  == <<elapsed, slept>>

Msg(lvl, op, p) == [lvl |-> lvl, op |-> op, path |-> p]

Min(a, b) == IF a < b THEN a ELSE b
Max(a, b) == IF a > b THEN a ELSE b

\* the process as main is first called: no pass yet
InitProcess(intervals, env) ==
    /\ logExists \in BOOLEAN
    /\ interval \in intervals
    /\ pc = "start"
    /\ passNo = 0
    /\ items_to_remove = <<>>
    /\ rmIdx = 1
    /\ walkStack = <<>>
    /\ walkPending = <<>>
    /\ visited = {}
    /\ messages_for_log = <<>>
    /\ itemFailures = 0
    /\ elapsed = 0
    /\ slept = 0
    /\ exitStatus = -1
    /\ notice = FALSE
    /\ interrupted = FALSE
    /\ faults = 0
    /\ failed = FALSE
    /\ sink = <<>>
    /\ retry = {}
    /\ envLeft = env

InitWith(srcRoots, dstRoots, intervals, env) ==
    /\ srcRoot \in srcRoots
    /\ src \in SrcTrees(srcRoot)
    /\ dstRoot \in dstRoots
    /\ dst \in DstTrees(dstRoot)
    /\ InitProcess(intervals, env)

Init == InitWith(Roots, Roots, {5}, 0)

MayFault == faults < MaxFaults

(***************************************************************************)
(* main, lines 20-22, and folder_synchronization, lines 97-100.            *)
(***************************************************************************)
StartPass ==
    /\ pc = "start"
    /\ pc' = "validate"
    /\ passNo' = Min(passNo + 1, MaxPass)
    /\ items_to_remove' = <<>>
    /\ rmIdx' = 1
    /\ walkStack' = <<>>
    /\ walkPending' = <<>>
    /\ visited' = {}
    /\ messages_for_log' = <<>>
    /\ itemFailures' = 0
    /\ elapsed' = 0
    /\ slept' = 0
    /\ UNCHANGED <<fsVars, logExists, interval, sink, retry, exitVars, faults, failed,
                   envLeft>>

\* a slip: line 104 left out, the early return hands nothing to the log
ValidateSource_NoHandOff ==
    /\ pc = "validate"
    /\ IF ~exists(srcRoot, src, ROOT)
       THEN /\ messages_for_log' = <<>>
            /\ pc' = "sleep"
       ELSE /\ messages_for_log' = messages_for_log
            /\ pc' = "ensure"
    /\ UNCHANGED <<fsVars, logExists, interval, sink, retry, passNo, items_to_remove,
                   rmIdx, walkStack, walkPending, visited, itemFailures, timeVars,
                   exitVars, faults, failed, envLeft>>

\* lines 102-105
ValidateSource ==
    /\ pc = "validate"
    /\ IF ~exists(srcRoot, src, ROOT)
       THEN /\ messages_for_log' = Append(messages_for_log, Msg("Error", "source", ROOT))
            /\ pc' = "log104"
       ELSE /\ messages_for_log' = messages_for_log
            /\ pc' = "ensure"
    /\ UNCHANGED <<fsVars, logExists, interval, sink, retry, passNo, items_to_remove, rmIdx,
                   walkStack, walkPending, visited, itemFailures, timeVars,
                   exitVars, faults, failed, envLeft>>

\* a slip: no `return` on line 114, the pass goes on without a destination root
EnsureDestination_NoReturn ==
    /\ pc = "ensure"
    /\ IF ~exists(dstRoot, dst, ROOT)
       THEN \E r \in makedirs(dstRoot, dst, ROOT, MayFault) :
              /\ dstRoot' = r.root
              /\ dst' = r.tree
              /\ faults' = IF r.fault THEN faults + 1 ELSE faults
              /\ failed' = (failed \/ ~r.ok)
              /\ messages_for_log' = Append(messages_for_log,
                     Msg(IF r.ok THEN "Info" ELSE "Error", "destroot", ROOT))
              /\ pc' = "classify"
       ELSE /\ pc' = "classify"
            /\ UNCHANGED <<dstRoot, dst, faults, failed, messages_for_log>>
    /\ UNCHANGED <<srcRoot, src, logExists, interval, sink, retry, passNo,
                   items_to_remove, rmIdx, walkStack, walkPending, visited,
                   itemFailures, timeVars, exitVars, envLeft>>

\* lines 107-114
EnsureDestination ==
    /\ pc = "ensure"
    /\ IF ~exists(dstRoot, dst, ROOT)
       THEN \E r \in makedirs(dstRoot, dst, ROOT, MayFault) :
              /\ dstRoot' = r.root
              /\ dst' = r.tree
              /\ faults' = IF r.fault THEN faults + 1 ELSE faults
              /\ failed' = (failed \/ ~r.ok)
              /\ messages_for_log' = Append(messages_for_log,
                     Msg(IF r.ok THEN "Info" ELSE "Error", "destroot", ROOT))
              /\ pc' = IF r.ok THEN "classify" ELSE "log113"
       ELSE /\ pc' = "classify"
            /\ UNCHANGED <<dstRoot, dst, faults, failed, messages_for_log>>
    /\ UNCHANGED <<srcRoot, src, logExists, interval, sink, retry, passNo, items_to_remove,
                   rmIdx, walkStack, walkPending, visited, itemFailures, timeVars,
                   exitVars, envLeft>>

\* lines 116-121; an empty list falls through the loop of line 123 to line 133
Classify ==
    /\ pc = "classify"
    /\ \E seq \in walk_bottom_up(dstRoot, dst, ROOT) :
         /\ items_to_remove' = SelectItems(srcRoot, src, seq)
         /\ pc' = IF items_to_remove' = <<>> THEN "walk" ELSE "remove"
    /\ rmIdx' = 1
    /\ walkStack' = <<ROOT>>
    /\ UNCHANGED <<fsVars, logExists, interval, sink, retry, passNo, walkPending, visited,
                   messages_for_log, itemFailures, timeVars, exitVars, faults,
                   failed, envLeft>>

\* an uncaught exception leaves main: traceback, exit status 1
Crash ==
    /\ pc' = "crashed"
    /\ exitStatus' = 1
    /\ items_to_remove' = <<>>
    /\ rmIdx' = 1
    /\ walkStack' = <<>>
    /\ walkPending' = <<>>
    /\ visited' = {}
    /\ messages_for_log' = <<>>
    /\ itemFailures' = 0
    /\ sink' = <<>>
    /\ retry' = {}

\* lines 125-128: os.rmdir for a directory, os.remove otherwise
RemoveItem(root, tree, item, mayFault) ==
    IF isdir(root, tree, item)
    THEN rmdir(root, tree, item, mayFault)
    ELSE remove(root, tree, item, mayFault)

\* a slip: the loop of line 123 without its try/except
Remove_Uncaught ==
    /\ pc = "remove"
    /\ LET item == items_to_remove[rmIdx]
       IN  \E r \in RemoveItem(dstRoot, dst, item, MayFault) :
             /\ dstRoot' = r.root
             /\ dst' = r.tree
             /\ faults' = IF r.fault THEN faults + 1 ELSE faults
             /\ failed' = (failed \/ ~r.ok)
             /\ IF r.ok
                THEN /\ messages_for_log' = Append(messages_for_log,
                                                    Msg("Info", "remove", item))
                     /\ rmIdx' = rmIdx + 1
                     /\ pc' = IF rmIdx' > Len(items_to_remove) THEN "walk" ELSE "remove"
                     /\ UNCHANGED <<items_to_remove, walkStack, walkPending, visited,
                                    itemFailures, exitStatus, sink, retry>>
                ELSE Crash
    /\ UNCHANGED <<srcRoot, src, logExists, interval, passNo, timeVars, notice,
                   interrupted, envLeft>>

\* one iteration of the loop of lines 123-131
Remove ==
    /\ pc = "remove"
    /\ LET item == items_to_remove[rmIdx]
       IN  \E r \in RemoveItem(dstRoot, dst, item, MayFault) :
             /\ dstRoot' = r.root
             /\ dst' = r.tree
             /\ faults' = IF r.fault THEN faults + 1 ELSE faults
             /\ failed' = (failed \/ ~r.ok)
             /\ itemFailures' = IF r.ok THEN itemFailures ELSE itemFailures + 1
             /\ messages_for_log' = Append(messages_for_log,
                    Msg(IF r.ok THEN "Info" ELSE "Error", "remove", item))
    /\ rmIdx' = rmIdx + 1
    /\ pc' = IF rmIdx' > Len(items_to_remove) THEN "walk" ELSE "remove"
    /\ UNCHANGED <<srcRoot, src, logExists, interval, sink, retry, passNo, items_to_remove,
                   walkStack, walkPending, visited, timeVars, exitVars, envLeft>>

\* os.walk(source_folder), line 133: list the next directory (an unreadable
\* one is skipped), or end the walk
WalkSource ==
    /\ pc = "walk"
    /\ IF walkStack = <<>>
       THEN /\ pc' = "log154"
            /\ UNCHANGED <<walkStack, walkPending>>
       ELSE LET d == Head(walkStack)
            IN  IF ~isdir(srcRoot, src, d)
                THEN /\ walkStack' = Tail(walkStack)
                     /\ walkPending' = <<>>
                     /\ pc' = "walk"
                ELSE \E ds \in Orders(SubDirs(src, d)), fs \in Orders(NonDirs(src, d)) :
                       /\ walkStack' = ds \o Tail(walkStack)
                       /\ walkPending' = ds \o fs
                       /\ pc' = IF walkPending' = <<>> THEN "walk" ELSE "create"
    /\ UNCHANGED <<fsVars, logExists, interval, sink, retry, passNo, items_to_remove, rmIdx,
                   visited, messages_for_log, itemFailures, timeVars, exitVars,
                   faults, failed, envLeft>>

\* lines 140-152: what is done with an item that same_file_check wants written
WriteItem(sroot, stree, root, tree, item, mayFault) ==
    IF isdir(sroot, stree, item)
    THEN makedirs(root, tree, item, mayFault)
    ELSE copy2(sroot, stree, root, tree, item, mayFault)

WriteOp(sroot, stree, item) == IF isdir(sroot, stree, item) THEN "create" ELSE "copy"

\* a slip: shutil.copy2(dest_item, source_item), the arguments of line 149 swapped
CreateOrCopy_ArgsSwapped ==
    /\ pc = "create"
    /\ LET item == Head(walkPending)
       IN  \E c \in same_file_check(srcRoot, src, dstRoot, dst, item) :
             IF c = "Raise"
             THEN /\ Crash
                  /\ UNCHANGED <<srcRoot, src, dstRoot, dst, faults, failed>>
             ELSE /\ IF c = "True"
                     THEN \E r \in IF isdir(srcRoot, src, item)
                                   THEN makedirs(dstRoot, dst, item, MayFault)
                                   ELSE copy2(dstRoot, dst, srcRoot, src, item, MayFault) :
                            /\ IF isdir(srcRoot, src, item)
                               THEN /\ dstRoot' = r.root /\ dst' = r.tree
                                    /\ UNCHANGED <<srcRoot, src>>
                               ELSE /\ srcRoot' = r.root /\ src' = r.tree
                                    /\ UNCHANGED <<dstRoot, dst>>
                            /\ faults' = IF r.fault THEN faults + 1 ELSE faults
                            /\ failed' = (failed \/ ~r.ok)
                            /\ itemFailures' =
                                   IF r.ok THEN itemFailures ELSE itemFailures + 1
                            /\ messages_for_log' = Append(messages_for_log,
                                   Msg(IF r.ok THEN "Info" ELSE "Error",
                                       WriteOp(srcRoot, src, item), item))
                     ELSE UNCHANGED <<srcRoot, src, dstRoot, dst, faults, failed,
                                      messages_for_log, itemFailures>>
                  /\ visited' = visited \cup {item}
                  /\ walkPending' = Tail(walkPending)
                  /\ pc' = IF walkPending' = <<>> THEN "walk" ELSE "create"
                  /\ UNCHANGED <<items_to_remove, rmIdx, walkStack, exitStatus, sink,
                                 retry>>
    /\ UNCHANGED <<logExists, interval, passNo, timeVars, notice, interrupted, envLeft>>

\* a slip: `except: pass` on lines 144 and 151, a failure leaves no record
CreateOrCopy_SilentFailure ==
    /\ pc = "create"
    /\ LET item == Head(walkPending)
       IN  \E c \in same_file_check(srcRoot, src, dstRoot, dst, item) :
             IF c = "Raise"
             THEN /\ Crash
                  /\ UNCHANGED <<dstRoot, dst, faults, failed>>
             ELSE /\ IF c = "True"
                     THEN \E r \in WriteItem(srcRoot, src, dstRoot, dst, item, MayFault) :
                            /\ dstRoot' = r.root
                            /\ dst' = r.tree
                            /\ faults' = IF r.fault THEN faults + 1 ELSE faults
                            /\ failed' = (failed \/ ~r.ok)
                            /\ itemFailures' =
                                   IF r.ok THEN itemFailures ELSE itemFailures + 1
                            /\ messages_for_log' =
                                   IF r.ok
                                   THEN Append(messages_for_log,
                                               Msg("Info", WriteOp(srcRoot, src, item), item))
                                   ELSE messages_for_log
                     ELSE UNCHANGED <<dstRoot, dst, faults, failed, messages_for_log,
                                      itemFailures>>
                  /\ visited' = visited \cup {item}
                  /\ walkPending' = Tail(walkPending)
                  /\ pc' = IF walkPending' = <<>> THEN "walk" ELSE "create"
                  /\ UNCHANGED <<items_to_remove, rmIdx, walkStack, exitStatus, sink,
                                 retry>>
    /\ UNCHANGED <<srcRoot, src, logExists, interval, passNo, timeVars, notice,
                   interrupted, envLeft>>

\* one iteration of the loop of lines 134-152
CreateOrCopy ==
    /\ pc = "create"
    /\ LET item == Head(walkPending)
       IN  \E c \in same_file_check(srcRoot, src, dstRoot, dst, item) :
             IF c = "Raise"
             THEN /\ Crash
                  /\ UNCHANGED <<dstRoot, dst, faults, failed>>
             ELSE /\ IF c = "True"
                     THEN \E r \in WriteItem(srcRoot, src, dstRoot, dst, item, MayFault) :
                            /\ dstRoot' = r.root
                            /\ dst' = r.tree
                            /\ faults' = IF r.fault THEN faults + 1 ELSE faults
                            /\ failed' = (failed \/ ~r.ok)
                            /\ itemFailures' =
                                   IF r.ok THEN itemFailures ELSE itemFailures + 1
                            /\ messages_for_log' = Append(messages_for_log,
                                   Msg(IF r.ok THEN "Info" ELSE "Error",
                                       WriteOp(srcRoot, src, item), item))
                     ELSE UNCHANGED <<dstRoot, dst, faults, failed, messages_for_log,
                                      itemFailures>>
                  /\ visited' = visited \cup {item}
                  /\ walkPending' = Tail(walkPending)
                  /\ pc' = IF walkPending' = <<>> THEN "walk" ELSE "create"
                  /\ UNCHANGED <<items_to_remove, rmIdx, walkStack, exitStatus, sink,
                                 retry>>
    /\ UNCHANGED <<srcRoot, src, logExists, interval, passNo, timeVars, notice,
                   interrupted, envLeft>>

\* the paths of the error records in content, the one of line 103 apart
FailedPaths(content) ==
    {content[i].path : i \in {j \in 1..Len(content) :
                                 content[j].lvl = "Error" /\ content[j].op # "source"}}

\* update_log, lines 60-84, called from lines 104, 113 and 154: creating the log
\* file (lines 63-68) and appending to it (lines 76-84) may each fail, which is
\* printed and nothing more; then the pass returns
UpdateLog ==
    /\ pc \in {"log104", "log113", "log154"}
    /\ \E createOk, appendOk \in BOOLEAN :
         LET created == ~logExists /\ createOk
             lines   == IF created
                        THEN Append(messages_for_log, Msg("Info", "log", ROOT))
                        ELSE messages_for_log
         IN  /\ logExists' = (logExists \/ created \/ appendOk)
             /\ sink' = Append(sink, [content |-> messages_for_log, hour |-> passNo,
                                      printed |-> lines, written |-> appendOk])
    /\ retry' = FailedPaths(messages_for_log)
    /\ pc' = "sleep"
    /\ items_to_remove' = <<>>
    /\ rmIdx' = 1
    /\ walkStack' = <<>>
    /\ walkPending' = <<>>
    /\ visited' = {}
    /\ messages_for_log' = <<>>
    /\ itemFailures' = 0
    /\ UNCHANGED <<fsVars, interval, passNo, timeVars, exitVars, faults, failed,
                   envLeft>>

\* a slip: the whole interval is slept, whatever the pass took
sleep_whole_interval(i, d) == i

\* line 25: max(0, interval + start_time - time.time()), d seconds into the cycle
sleep_time(i, d) == Max(0, i - d)

\* line 25: the pass took d seconds; sleep what is left of the interval
Sleep ==
    /\ pc = "sleep"
    /\ \E d \in 0..MaxDur :
         /\ elapsed' = d
         /\ slept' = sleep_time(interval, d)
    /\ pc' = "start"
    /\ sink' = <<>>
    /\ UNCHANGED <<fsVars, logExists, interval, retry, passNo, localVars, exitVars,
                   faults, failed, envLeft>>

\* lines 26-29: Ctrl+C anywhere in the loop
KeyboardInterrupt ==
    /\ pc \in {"start", "validate", "ensure", "classify", "remove", "walk",
               "create", "log104", "log113", "log154", "sleep"}
    /\ interrupted' = TRUE
    /\ notice' = TRUE
    /\ exitStatus' = 0
    /\ pc' = "exited"
    /\ items_to_remove' = <<>>
    /\ rmIdx' = 1
    /\ walkStack' = <<>>
    /\ walkPending' = <<>>
    /\ visited' = {}
    /\ messages_for_log' = <<>>
    /\ itemFailures' = 0
    /\ sink' = <<>>
    /\ retry' = {}
    /\ UNCHANGED <<fsVars, logExists, interval, passNo, timeVars, faults, failed,
                   envLeft>>

Next ==
    \/ StartPass
    \/ ValidateSource
    \/ EnsureDestination
    \/ Classify
    \/ Remove
    \/ WalkSource
    \/ CreateOrCopy
    \/ UpdateLog
    \/ Sleep
    \/ KeyboardInterrupt

Spec == Init /\ [][Next]_vars

TypeOK ==
    /\ WellFormed(srcRoot, src)
    /\ WellFormed(dstRoot, dst)
    /\ faults \in 0..MaxFaults
    /\ passNo \in 0..MaxPass


(***************************************************************************)
(* Other processes: while the program runs, something else may delete a    *)
(* leaf of either tree or drop a new file into the destination.            *)
(***************************************************************************)
Running == pc \notin {"exited", "crashed"}

EnvRemoveDst(p) ==
    /\ Running /\ envLeft > 0
    /\ exists(dstRoot, dst, p) /\ Entries(dst, p) = {}
    /\ dst' = Unlink(dst, p)
    /\ envLeft' = envLeft - 1
    /\ UNCHANGED <<srcRoot, src, dstRoot, logExists, interval, sink, retry, pc, passNo,
                   localVars, timeVars, exitVars, faults, failed>>

EnvAddDst(p) ==
    /\ Running /\ envLeft > 0
    /\ ~exists(dstRoot, dst, p) /\ isdir(dstRoot, dst, Parent(p))
    /\ SrcFile \in DstNodes(p)
    /\ dst' = Write(dst, p, SrcFile)
    /\ envLeft' = envLeft - 1
    /\ UNCHANGED <<srcRoot, src, dstRoot, logExists, interval, sink, retry, pc, passNo,
                   localVars, timeVars, exitVars, faults, failed>>

EnvRemoveSrc(p) ==
    /\ Running /\ envLeft > 0
    /\ exists(srcRoot, src, p) /\ Entries(src, p) = {}
    /\ src' = [src EXCEPT ![p] = Absent]
    /\ envLeft' = envLeft - 1
    /\ UNCHANGED <<srcRoot, dstRoot, dst, logExists, interval, sink, retry, pc, passNo,
                   localVars, timeVars, exitVars, faults, failed>>

NextEnv ==
    \/ Next
    \/ \E p \in Paths : EnvRemoveDst(p)
    \/ \E p \in Paths : EnvAddDst(p)
    \/ \E p \in Paths : EnvRemoveSrc(p)

\* the runs with other processes start from fewer destinations
InitEnv ==
    /\ InitWith({"dir"}, {"dir"}, {5}, MaxEnv)
    /\ logExists
    /\ dst[B] = Absent
    /\ dst[A].size # 11
    /\ dst[S] # OldDir

SpecEnv == InitEnv /\ [][NextEnv]_vars


(***************************************************************************)
(* The scenario of the specification's section 8, under every interval.    *)
(***************************************************************************)
ScenarioSrc == [p \in Paths |-> IF p = A THEN SrcFile ELSE IF p = S THEN NewDir ELSE Absent]
ScenarioDst == [p \in Paths |-> IF p = B \/ p = SO THEN SrcFile
                                ELSE IF p = S THEN NewDir ELSE Absent]

InitScenario ==
    /\ InitWith({"dir"}, {"dir"}, 1..MaxInterval, 0)
    /\ src = ScenarioSrc
    /\ dst = ScenarioDst

SpecScenario == InitScenario /\ [][Next]_vars

(***************************************************************************)
(* Trees with a directory only the source has (new/, new/f.txt) next to    *)
(* one only the destination may have (sub/ and its contents).              *)
(***************************************************************************)
OrderSrcNodes(p) ==
    IF p = A THEN {Absent, SrcFile}
    ELSE IF p = N THEN {Absent, NewDir}
    ELSE IF p = NF THEN {Absent, SrcFile}
    ELSE IF p = S THEN {Absent, NewDir}
    ELSE {Absent}

InitOrder ==
    /\ srcRoot = "dir"
    /\ src \in {t \in TreesOver({A, S, N, NF}) :
                  /\ \A p \in Paths : t[p] \in OrderSrcNodes(p)
                  /\ WellFormed(srcRoot, t)}
    /\ dstRoot = "dir"
    /\ dst \in DstTrees(dstRoot)
    /\ dst[A] \in {Absent, SrcFile}
    /\ InitProcess({5}, 0)
    /\ logExists

SpecOrder == InitOrder /\ [][Next]_vars

(***************************************************************************)
(* The loop of main keeps running: whatever main or the pass is at takes   *)
(* its next step. A KeyboardInterrupt may never come.                      *)
(***************************************************************************)
ProgramStep ==
    \/ StartPass
    \/ ValidateSource
    \/ EnsureDestination
    \/ Classify
    \/ Remove
    \/ WalkSource
    \/ CreateOrCopy
    \/ UpdateLog
    \/ Sleep

InitRetry == InitWith({"dir"}, {"absent", "dir"}, {5}, 0) /\ logExists

SpecRetry == InitRetry /\ [][Next]_vars /\ WF_vars(ProgramStep)

(***************************************************************************)
(* What the claims speak of.                                               *)
(***************************************************************************)
Range(seq) == {seq[i] : i \in 1..Len(seq)}

\* the paths this pass has recorded an error outcome about
ErrorPaths == {m.path : m \in {x \in Range(messages_for_log) : x.lvl = "Error"}}

\* the records of the given operations, in order
Records(ops) == SelectSeq(messages_for_log, LAMBDA m : m.op \in ops)

ItemOps == {"remove", "create", "copy"}

\* the destination holds at p what the source holds at p
Equivalent(p) ==
    /\ exists(dstRoot, dst, p)
    /\ dst[p].kind = src[p].kind
    /\ src[p].kind = "file" => dst[p].size = src[p].size /\ dst[p].mtime = src[p].mtime

\* the pass has run both phases and is about to hand its records to the log
PassComplete == pc = "log154"

\* C1: when a pass completes, every source path has an item of the same kind
\* (files: same size and mtime) in the destination and the destination holds no
\* path the source lacks, except for paths the pass recorded an error about.
C1_MirrorAfterPass ==
    PassComplete =>
        \A p \in Paths :
            /\ exists(srcRoot, src, p) => Equivalent(p) \/ p \in ErrorPaths
            /\ exists(dstRoot, dst, p) /\ ~exists(srcRoot, src, p) => p \in ErrorPaths

\* C2: a pass that follows a pass, with no operation having failed and no other
\* change to the trees, records no creation, copy or removal.
C2_SecondPassIdle ==
    PassComplete /\ passNo >= 2 /\ ~failed => Records(ItemOps) = <<>>

\* C3: a source root that is missing or not a directory ends the pass at stage 1
\* with a single fatal error record; stages 2-4 do not run.
C3_SourceMustBeDirectory ==
    srcRoot # "dir" =>
        /\ pc \notin {"ensure", "classify", "remove", "walk", "create", "log113", "log154"}
        /\ pc = "log104" => messages_for_log = <<Msg("Error", "source", ROOT)>>


(***************************************************************************)
(* Removal phase.                                                          *)
(***************************************************************************)
\* the destination items whose relative path does not exist under the source
Extra == {p \in Paths : exists(dstRoot, dst, p) /\ ~exists(srcRoot, src, p)}

\* the removal loop has just ended and the walk of the source has not begun
RemovalDone == pc = "walk" /\ walkStack = <<ROOT>> /\ walkPending = <<>> /\ visited = {}

RemovalErrors == SelectSeq(messages_for_log, LAMBDA m : m.op = "remove" /\ m.lvl = "Error")

\* a step of the loop of line 123
RemoveStep == pc = "remove" /\ rmIdx' = rmIdx + 1

\* C4 (state part): the list built by classification holds each destination item
\* missing from the source exactly once and nothing else, and when no removal
\* failed no such item is left at the end of the removal phase.
C4_SlatedExactly ==
    /\ pc = "remove" /\ rmIdx = 1 =>
          /\ Range(items_to_remove) = Extra
          /\ Len(items_to_remove) = Cardinality(Extra)
    /\ RemovalDone /\ RemovalErrors = <<>> => Extra = {}

\* C4 (step part): a removal step changes the destination at most at the item
\* it is at, whose path the source lacks; the destination root is never removed.
C4_RemovesOnlySlated ==
    RemoveStep =>
        /\ dstRoot' = dstRoot
        /\ \A p \in Paths :
              dst'[p].kind # dst[p].kind =>
                  /\ p = items_to_remove[rmIdx]
                  /\ ~exists(srcRoot, src, p)
                  /\ dst'[p].kind = "absent"

\* C4: the removal phase attempts exactly the destination items whose path the
\* source lacks, removes nothing else (never the destination root), and leaves no
\* such item behind when no removal failed.
C4_RemovalContract == []C4_SlatedExactly /\ [][C4_RemovesOnlySlated]_vars

\* a removal phase that removed two items, kept a third and failed nowhere
C4_Witness ==
    /\ RemovalDone /\ RemovalErrors = <<>>
    /\ Len(items_to_remove) >= 2
    /\ \E p \in Paths : exists(dstRoot, dst, p)


\* a step of the pass, not of another process
PassStep == envLeft' = envLeft

PathsOf(seq) == [i \in 1..Len(seq) |-> seq[i].path]

\* C5: no step of a pass makes a destination directory disappear while it holds
\* an entry; an attempt on a non-empty directory records one error for it,
\* leaves the destination as it is, and the pass goes on.
C5_NonEmptyDirectoryKept ==
    [][PassStep =>
        /\ \A p \in Paths :
              dst[p].kind = "dir" /\ dst'[p].kind # "dir" => Entries(dst, p) = {}
        /\ RemoveStep =>
              LET item == items_to_remove[rmIdx]
              IN  isdir(dstRoot, dst, item) /\ Entries(dst, item) # {} =>
                      /\ dst' = dst
                      /\ messages_for_log' =
                             Append(messages_for_log, Msg("Error", "remove", item))
                      /\ pc' \in {"remove", "walk"}]_vars

\* with no outside failure, a slated directory got a file after classification:
\* its removal was refused, it still holds the file, and the pass completed
C5_Witness ==
    /\ PassComplete /\ faults = 0
    /\ \E i \in 1..Len(messages_for_log) :
          LET m == messages_for_log[i]
          IN  /\ m = Msg("Error", "remove", m.path)
              /\ dst[m.path].kind = "dir"
              /\ Entries(dst, m.path) # {}

\* a step of one of the two loops in which the operation on the item fails
ItemOpFails ==
    /\ pc \in {"remove", "create"}
    /\ \/ faults' = faults + 1
       \/ failed' /\ ~failed
       \/ itemFailures' = itemFailures + 1

\* C6 (state part): every slated item gets its record, in order, whatever
\* failed before it, and every source item has been processed when the pass
\* reaches its logging step.
C6_AllItemsProcessed ==
    /\ pc = "remove" =>
          PathsOf(Records({"remove"})) = SubSeq(items_to_remove, 1, rmIdx - 1)
    /\ pc \in {"walk", "create", "log154"} =>
          PathsOf(Records({"remove"})) = items_to_remove
    /\ PassComplete => \A p \in Paths : exists(srcRoot, src, p) => p \in visited
    /\ Len(SelectSeq(Records(ItemOps), LAMBDA m : m.lvl = "Error")) = itemFailures

\* C6 (step part): a step in which a removal, creation or copy fails records the
\* error and stays in the pass, the list of slated items untouched.
C6_FailureStaysInPass ==
    ItemOpFails =>
        /\ pc' \in {"remove", "walk", "create"}
        /\ items_to_remove' = items_to_remove
        /\ \E m \in {Msg("Error", op, p) : op \in ItemOps, p \in Paths} :
              messages_for_log' = Append(messages_for_log, m)

\* C6: a failed remove, create or copy is recorded for its item and stops
\* nothing: the other slated items and source items are still processed and the
\* pass reaches its logging step.
C6_FailureIsolation == []C6_AllItemsProcessed /\ [][C6_FailureStaysInPass]_vars

\* a completed pass in which a removal failed and a later one succeeded, and a
\* creation or copy failed and a later one succeeded
C6_Witness ==
    /\ PassComplete
    /\ \E i, j, k, l \in 1..Len(messages_for_log) :
          /\ i < j /\ j < k /\ k < l
          /\ messages_for_log[i].op = "remove" /\ messages_for_log[i].lvl = "Error"
          /\ messages_for_log[j].op = "remove" /\ messages_for_log[j].lvl = "Info"
          /\ messages_for_log[k].op \in {"create", "copy"}
          /\ messages_for_log[k].lvl = "Error"
          /\ messages_for_log[l].op \in {"create", "copy"}
          /\ messages_for_log[l].lvl = "Info"

\* C7: no error leaves a pass: an unreadable size or mtime makes the check
\* answer "needs write", and only an interrupt ends the process.
C7_NothingPropagates ==
    /\ pc # "crashed"
    /\ exitStatus # -1 => interrupted


(***************************************************************************)
(* The scenario: source {a.txt (10, T), sub/}, destination {b.txt, sub/,   *)
(* sub/old.txt}.                                                           *)
(***************************************************************************)
ScenarioResult == [p \in Paths |-> IF p = A THEN SrcFile
                                   ELSE IF p = S THEN NewDir ELSE Absent]

\* the first pass is complete and nothing failed in it
FirstPassClean == PassComplete /\ passNo = 1 /\ ~failed

\* C8 as stated: the pass leaves {a.txt (10, T), sub/} and hands over four
\* records: two removals, then one for the directory and one copy.
C8_FourRecords ==
    FirstPassClean =>
        /\ dst = ScenarioResult
        /\ Len(messages_for_log) = 4
        /\ Len(Records({"remove"})) = 2
        /\ Len(Records({"create"})) = 1
        /\ Len(Records({"copy"})) = 1
        /\ messages_for_log[1].op = "remove" /\ messages_for_log[2].op = "remove"

\* C8 (amended): the pass leaves {a.txt (10, T), sub/} and hands over three
\* records: the removals of sub/old.txt and b.txt, then the copy of a.txt; the
\* directory sub/, which exists, gets none.
C8_ThreeRecords ==
    FirstPassClean =>
        /\ dst = ScenarioResult
        /\ messages_for_log = << Msg("Info", "remove", SO), Msg("Info", "remove", B),
                                 Msg("Info", "copy", A) >>

C8_Witness == FirstPassClean /\ Len(messages_for_log) = 3 /\ dst[A] = SrcFile

\* C9 (state part): when the loop is back at line 22, the time since the
\* previous start is max(interval, duration of the pass), the sleep was not
\* negative, and it was zero exactly when the pass used up the interval.
C9_GapIsMaxOfIntervalAndDuration ==
    pc = "start" /\ passNo >= 1 =>
        /\ elapsed + slept = Max(interval, elapsed)
        /\ slept >= 0
        /\ (slept = 0) = (elapsed >= interval)

\* C9 (step part): a pass starts only from line 22, which is reached only from
\* the sleep that follows a completed pass.
C9_OnePassAtATime ==
    /\ pc' = "validate" => pc = "start"
    /\ pc' = "start" => pc = "sleep"
    /\ pc' = "sleep" => pc \in {"log104", "log113", "log154"}

\* C9: successive passes start max(interval, duration) apart, the sleep is never
\* negative, and a pass starts only after the previous one has completed.
C9_DriftFree == []C9_GapIsMaxOfIntervalAndDuration /\ [][C9_OnePassAtATime]_vars

\* interval 5, a pass of 7 seconds: the next pass starts at once
C9_Witness == pc = "start" /\ passNo >= 1 /\ interval = 5 /\ elapsed = 7 /\ slept = 0

\* C10: the process ends only after an interrupt, then with the notice printed
\* and status 0, and an interrupt starts no new pass.
C10_ExitOnlyOnInterrupt ==
    /\ pc \in {"exited", "crashed"} => interrupted /\ notice /\ exitStatus = 0
    /\ interrupted => pc = "exited"


(***************************************************************************)
(* Creation/update phase.                                                  *)
(***************************************************************************)
\* a step of the loop of line 134 that goes on to the next item
CreateStep == pc = "create" /\ pc' \in {"walk", "create"}

\* the destination path p is missing, or differs from the source's in mtime or size
Differs(p) ==
    \/ ~exists(dstRoot, dst, p)
    \/ dst[p].mtime # src[p].mtime
    \/ dst[p].size # src[p].size

Stage(at) ==
    IF at = "validate" THEN 1
    ELSE IF at = "ensure" THEN 2
    ELSE IF at \in {"classify", "remove"} THEN 3
    ELSE IF at \in {"walk", "create"} THEN 4
    ELSE 5

InPass == {"validate", "ensure", "classify", "remove", "walk", "create",
           "log104", "log113", "log154"}

\* C12 (state part): a pass that failed to create the destination root holds
\* that one error and has removed, created and copied nothing; the later stages
\* run only with a destination root in place.
C12_EarlyExitIsClean ==
    /\ pc = "log113" =>
          /\ dstRoot = "absent"
          /\ messages_for_log = <<Msg("Error", "destroot", ROOT)>>
          /\ items_to_remove = <<>> /\ visited = {}
    /\ pc \in {"classify", "remove", "walk", "create", "log154"} => dstRoot # "absent"

\* C12 (step part): stage 2 creates a missing root and goes on to the removal
\* phase, or fails, records the error and goes to the hand-off of line 113, from
\* where the pass returns; an existing root is left alone; no step of a pass
\* leads back to an earlier stage, and the removal phase is never skipped.
C12_StagesInOrder ==
    /\ pc \in InPass /\ pc' \in InPass => Stage(pc') >= Stage(pc)
    /\ pc = "ensure" /\ pc' \in InPass =>
          IF ~exists(dstRoot, dst, ROOT)
          THEN \/ /\ dstRoot' = "dir" /\ dst' = dst /\ pc' = "classify"
                  /\ messages_for_log' =
                         Append(messages_for_log, Msg("Info", "destroot", ROOT))
               \/ /\ dstRoot' = dstRoot /\ dst' = dst /\ pc' = "log113"
                  /\ messages_for_log' =
                         Append(messages_for_log, Msg("Error", "destroot", ROOT))
          ELSE /\ pc' = "classify"
               /\ dstRoot' = dstRoot /\ dst' = dst
               /\ messages_for_log' = messages_for_log
    /\ pc = "classify" /\ pc' \in InPass => pc' \in {"remove", "walk"}
    /\ pc = "log113" /\ pc' # "exited" => pc' = "sleep" /\ dst' = dst /\ dstRoot' = dstRoot

\* C12: a missing destination root is created or, failing that, the pass records
\* the error and returns without removing or creating anything; otherwise the
\* pass goes through removal and then creation/update, never backwards.
C12_EnsureDestinationRoot == []C12_EarlyExitIsClean /\ [][C12_StagesInOrder]_vars

\* the destination root could not be created and the pass is about to return
C12_Witness ==
    /\ pc = "log113" /\ dstRoot = "absent" /\ srcRoot = "dir"
    /\ \E p \in Paths : exists(srcRoot, src, p)


(***************************************************************************)
(* Order of the operations of a pass.                                      *)
(***************************************************************************)
\* C13 (state part): in the list of slated items no item comes after the
\* directory that holds it; while removals are under way no source item has
\* been processed; an item is processed only after the directory that holds
\* it; every removal record precedes every creation and copy record.
C13_ListsInOrder ==
    /\ \A i, j \in 1..Len(items_to_remove) :
          i < j => items_to_remove[i] # Parent(items_to_remove[j])
    /\ pc \in {"classify", "remove"} =>
          visited = {} /\ Records({"create", "copy"}) = <<>>
    /\ \A k \in 1..Len(walkPending) :
          Parent(walkPending[k]) = ROOT \/ Parent(walkPending[k]) \in visited
    /\ \A i, j \in 1..Len(messages_for_log) :
          i < j /\ messages_for_log[i].op \in {"create", "copy"} =>
              messages_for_log[j].op # "remove"

\* C13 (step part): the removal loop takes the slated items in the order of the
\* list and brings nothing into being; once the walk of the source has begun
\* nothing is removed any more.
C13_OpsInOrder ==
    /\ RemoveStep =>
          /\ \A p \in Paths : dst[p].kind = "absent" => dst'[p].kind = "absent"
          /\ \A p \in Paths : dst'[p].kind # dst[p].kind => p = items_to_remove[rmIdx]
    /\ pc \in {"walk", "create"} =>
          \A p \in Paths : dst[p].kind # "absent" => dst'[p].kind # "absent"

\* C13: removals all come before creations and copies; a slated item inside a
\* slated directory is attempted before the directory; a source directory is
\* checked or created before the items inside it are processed.
C13_OrderOfOperations == []C13_ListsInOrder /\ [][C13_OpsInOrder]_vars

\* sub/old.txt was removed, then sub/, then new/ was created, then new/f.txt copied
C13_Witness ==
    /\ PassComplete
    /\ \E i, j, k, l \in 1..Len(messages_for_log) :
          /\ i < j /\ j < k /\ k < l
          /\ messages_for_log[i] = Msg("Info", "remove", SO)
          /\ messages_for_log[j] = Msg("Info", "remove", S)
          /\ messages_for_log[k] = Msg("Info", "create", N)
          /\ messages_for_log[l] = Msg("Info", "copy", NF)


(***************************************************************************)
(* Retry across passes.                                                    *)
(***************************************************************************)
\* the destination holds what the source holds, path by path, and nothing else
Mirror ==
    \A p \in Paths :
        /\ exists(srcRoot, src, p) => Equivalent(p)
        /\ exists(dstRoot, dst, p) => exists(srcRoot, src, p)

NoErrorRecorded == \A i \in 1..Len(messages_for_log) : messages_for_log[i].lvl # "Error"

\* C14 (retry): a pass about to return has a record for every path the pass
\* before it recorded a failure about.
C14_Retried ==
    pc \in {"log113", "log154"} =>
        \A p \in retry : \E i \in 1..Len(messages_for_log) : messages_for_log[i].path = p

\* C14 (convergence): if the loop is never interrupted and from some pass on no
\* failure is recorded, then from some pass on every pass ends with the
\* destination mirroring the source and with no outcome recorded.
C14_Converges ==
    ([]~interrupted /\ <>[]NoErrorRecorded) =>
        <>[](PassComplete => Mirror /\ messages_for_log = <<>>)

\* C14: what failed in one pass is attempted again by the next, and once
\* failures stop the passes reach a mirror and then record nothing.
C14_RetryUntilMirrored == []C14_Retried /\ C14_Converges


(***************************************************************************)
(* Directories.                                                            *)
(***************************************************************************)
\* p is a directory in the source and a directory in the destination
DirInBoth(p) == isdir(srcRoot, src, p) /\ isdir(dstRoot, dst, p)

\* C15 (state part): for a source directory the check wants a write exactly
\* when the destination path does not exist, whatever is there otherwise.
C15_CheckOnDirectories ==
    pc = "create" /\ isdir(srcRoot, src, Head(walkPending)) =>
        same_file_check(srcRoot, src, dstRoot, dst, Head(walkPending)) =
            IF exists(dstRoot, dst, Head(walkPending)) THEN {"False"} ELSE {"True"}

\* C15 (step part): a directory of both trees stays a directory of its size, its
\* mtime moves only when an entry is added to it or removed from it, and no
\* step appends a record that names it.
C15_DirectoryLeftAlone ==
    \A p \in Paths : DirInBoth(p) =>
        /\ dst'[p].kind = "dir" /\ dst'[p].size = dst[p].size
        /\ dst'[p].mtime # dst[p].mtime => Entries(dst', p) # Entries(dst, p)
        /\ \/ Len(messages_for_log') <= Len(messages_for_log)
           \/ messages_for_log'[Len(messages_for_log')].path # p

NeedsWrite(p) ==
    \/ ~exists(dstRoot, dst, p)
    \/ ~isdir(srcRoot, src, p) /\ Differs(p)

\* C16 (state part): the removal records so far name the slated items so far,
\* one each and in the order of the list; no path has two creation or copy
\* records, and each names a source item already processed.
C16_OneRecordEach ==
    /\ pc = "remove" =>
          PathsOf(Records({"remove"})) = SubSeq(items_to_remove, 1, rmIdx - 1)
    /\ pc \in {"walk", "create", "log154"} =>
          PathsOf(Records({"remove"})) = items_to_remove
    /\ LET made == Records({"create", "copy"})
       IN  /\ \A i, j \in 1..Len(made) : made[i].path = made[j].path => i = j
           /\ \A i \in 1..Len(made) : made[i].path \in visited

\* C16 (step part): a removal step appends one record naming its item,
\* informational exactly when the item is gone; a step of the creation loop
\* appends one record naming its item when the check wants it written and none
\* otherwise; listing a directory appends nothing. Records are appended at the
\* end, so they stand in the order of the attempts.
C16_RecordPerAttempt ==
    /\ RemoveStep =>
          \E lvl \in {"Info", "Error"} :
             /\ messages_for_log' =
                    Append(messages_for_log, Msg(lvl, "remove", items_to_remove[rmIdx]))
             /\ (lvl = "Info") = (dst'[items_to_remove[rmIdx]].kind = "absent")
    /\ CreateStep =>
          IF NeedsWrite(Head(walkPending))
          THEN \E lvl \in {"Info", "Error"}, op \in {"create", "copy"} :
                 messages_for_log' =
                     Append(messages_for_log, Msg(lvl, op, Head(walkPending)))
          ELSE messages_for_log' = messages_for_log
    /\ pc \in {"classify", "walk"} /\ pc' \in InPass =>
          messages_for_log' = messages_for_log

\* C16: every slated item and every source item the check wants written gets
\* exactly one record naming it, items judged equivalent get none, and the
\* records stand in the order of the attempts.
C16_OneOutcomePerOperation == []C16_OneRecordEach /\ [][C16_RecordPerAttempt]_vars

\* a completed pass: a removal failed, one succeeded, a copy failed, and a.txt
\* and sub/, judged equivalent, have no record
C16_Witness ==
    /\ PassComplete /\ Len(items_to_remove) = 2 /\ Len(messages_for_log) = 3
    /\ messages_for_log[1].lvl = "Error" /\ messages_for_log[2].lvl = "Info"
    /\ messages_for_log[3] = Msg("Error", "copy", SO)
    /\ src[A] = SrcFile /\ dst[A] = SrcFile /\ {A, S, SO} \subseteq visited


(***************************************************************************)
(* The source is only read.                                                *)
(***************************************************************************)
\* C17 (step part): no step changes the source root or any item under it; the
\* destination changes only in the steps that issue makedirs on the root
\* (line 109), rmdir or remove (lines 126, 128), makedirs or copy2 (142, 149).
C17_OnlyDestinationWritten ==
    /\ srcRoot' = srcRoot /\ src' = src
    /\ pc \notin {"ensure", "remove", "create"} => dstRoot' = dstRoot /\ dst' = dst
    /\ pc \in {"remove", "create"} => dstRoot' = dstRoot

\* C17: whatever passes run, the source tree stays as it is; every removal,
\* creation and copy lands in the destination tree.
C17_SourceReadOnly == [][C17_OnlyDestinationWritten]_vars

\* a completed pass that has removed, created and copied
C17_Witness ==
    /\ PassComplete
    /\ \E i, j, k \in 1..Len(messages_for_log) :
          /\ messages_for_log[i] = Msg("Info", "remove", B)
          /\ messages_for_log[j] = Msg("Info", "create", S)
          /\ messages_for_log[k] = Msg("Info", "copy", A)
    /\ dst[A] = src[A] /\ dst[S].kind = "dir" /\ dst[B] = Absent


(***************************************************************************)
(* The hand-off to the log.                                                *)
(***************************************************************************)
\* C18 (state part): a pass under way has not called update_log yet; a pass
\* that has returned has called it once, with the time the pass started.
C18_HandedOverOnce ==
    /\ pc \in InPass => sink = <<>>
    /\ pc = "sleep" => Len(sink) = 1 /\ sink[1].hour = passNo

\* C18 (step part): a pass returns only through update_log, from line 104, 113
\* or 154, which gets the records of the pass as they stand; whether or not the
\* log file could be created or appended to, the pass returns to main and
\* neither tree has changed.
C18_ReturnsThroughLog ==
    /\ pc' = "sleep" =>
          /\ pc \in {"log104", "log113", "log154"}
          /\ sink' = <<sink'[1]>>
          /\ sink'[1].content = messages_for_log
          /\ sink'[1].hour = passNo
    /\ pc \in {"log104", "log113", "log154"} =>
          /\ pc' \in {"sleep", "exited"}
          /\ dst' = dst /\ dstRoot' = dstRoot /\ src' = src /\ srcRoot' = srcRoot

\* C18: every pass that returns has handed its records and its start time to
\* update_log exactly once, on each of the three ways out, and a log file that
\* cannot be created or written stops nothing and changes no item.
C18_LogHandOff == []C18_HandedOverOnce /\ [][C18_ReturnsThroughLog]_vars

\* a pass that ended at the creation of the destination root has returned; the
\* log file could be neither created nor appended to
C18_Witness ==
    /\ pc = "sleep" /\ ~logExists
    /\ Len(sink) = 1 /\ ~sink[1].written
    /\ sink[1].content = <<Msg("Error", "destroot", ROOT)>>
    /\ sink[1].printed = sink[1].content

====
